---- MODULE Spec2Model ----
(***************************************************************************)
(* The polling message relay of server/routes.ts (the clients map, the     *)
(* sweep timer and the register / send / poll handlers behind the          *)
(* authenticate middleware) and the client side call session (the          *)
(* VideoCall page, the CallProvider context and the AgoraClient wrapper).  *)
(***************************************************************************)
EXTENDS Integers, Sequences, FiniteSets, Bags, TLC

VARIABLES
    clients,    \* routes.ts:123  Map<number, {lastPoll, messages}>
    now,        \* Date.now() of the server process, in ms
    inflight,   \* requests suspended in authenticate on `await storage.getUser`
    response,   \* the HTTP response written by the request handled last
    log,        \* history: one record per message object the relay created
    expected,   \* history: at a poll, the ids accepted for the poller since its previous poll
    ticks,      \* number of clock advances taken (bounds the clock)
    ctx,        \* CallProvider state: isInCall, isCalling, callPartner, messages, messageIdCounter
    pages,      \* the VideoCall instances mounted so far, each with its state, its interval ref
                \* and the stage of the agoraClient.join() its initializeCall awaits
    location,   \* the route shown
    agora,      \* the AgoraClient singleton with the SDK client behind it
    translating,\* messages of the TranslationPanel whose translation is awaited
    lastEnd,    \* history: the phase in which handleEndCall ran last on the page shown,
                \* or the SDK event it ran for
    polls,      \* main.tsx:92  the pollTranscriptionResult promises created so far
    transcriptionTimerId, \* main.tsx:33  TranslationService.transcriptionTimerId
    recorder,   \* main.tsx:30-32  TranslationService: isRecording, audioChunks and the MediaRecorders
    users,      \* storage.ts:34  MemStorage.users with currentUserId
    signups     \* POST /api/users requests suspended at one of their awaits

relayVars == <<clients, now, inflight, response, log, expected, ticks>>

callVars == <<ctx, pages, location, agora, translating, lastEnd>>

sideVars == <<polls, transcriptionTimerId, recorder, users, signups>>

vars == <<relayVars, callVars, sideVars>>

----------------------------------------------------------------------------
(* Bounds of the model                                                     *)

\* accepted messages in the sequential and in the concurrent specification
MaxSends == 2
\* requests suspended at the same time in the concurrent specification
MaxInFlight == 2
\* clock advances in the sequential specification
MaxTicks == 2
\* accepted messages in the overflow specification
MaxBurst == 102
\* VideoCall instances mounted in one run
MaxMounts == 1
\* ticks of a duration timer
MaxDuration == 1
\* transcript entries added in one run
MaxTranscript == 1
\* toasts are counted modulo this number
ToastWrap == 2
\* messages sent in one run of the transcript specification
MaxUtterances == 2
\* clock advances in the concurrent specification
MaxConcTicks == 1

----------------------------------------------------------------------------
(* Program constants                                                       *)

\* routes.ts:172  `recipientClient.messages.length > 100`
QueueCap == 100
\* routes.ts:131  `5 * 60 * 1000`
StaleMs == 5 * 60 * 1000
\* routes.ts:135  `60 * 1000`
SweepIntervalMs == 60 * 1000

\* storage.ts:90-99: ids are handed out from 1; the relay is modelled with
\* two users registered through POST /api/users.
StoredUsers == {1, 2}

----------------------------------------------------------------------------
(* JavaScript values that reach the handlers                               *)

\* The number NaN; no request of the model carries the number -1.
NaN == 0 - 1

JUndef == [kind |-> "undefined", num |-> 0, str |-> ""]
JNum(n) == [kind |-> "number", num |-> n, str |-> ""]
JStr(s) == [kind |-> "string", num |-> 0, str |-> s]
JNull == [kind |-> "null", num |-> 0, str |-> ""]

\* `!v`
Falsy(v) ==
    \/ v.kind \in {"undefined", "null"}
    \/ v.kind = "number" /\ v.num \in {0, NaN}
    \/ v.kind = "string" /\ v.str = ""

\* Decimal strings the model uses, with their value; "" converts to 0.
DecimalOf == ("" :> 0) @@ ("0" :> 0) @@ ("1" :> 1) @@ ("2" :> 2) @@ ("3" :> 3)

\* `Number(v)`
ToNumber(v) ==
    CASE v.kind = "number" -> v.num
      [] v.kind = "string" -> IF v.str \in DOMAIN DecimalOf THEN DecimalOf[v.str] ELSE NaN
      [] OTHER -> NaN

\* An object without own properties; `...undefined` spreads nothing either.
EmptyObj == [k \in {} |-> JUndef]

----------------------------------------------------------------------------
(* The mailbox map and the handler bodies, as functions of the map         *)

NoClients == [k \in {} |-> [lastPoll |-> 0, messages |-> <<>>]]

\* Slip: the entry is set without the `has` test.
GetOrCreateClientFresh(c, userId, t) ==
    (userId :> [lastPoll |-> t, messages |-> <<>>]) @@ c

\* routes.ts:138-143
GetOrCreateClient(c, userId, t) ==
    IF userId \in DOMAIN c
    THEN c
    ELSE c @@ (userId :> [lastPoll |-> t, messages |-> <<>>])

\* Slip: register replaces the entry instead of touching its timestamp.
RegisterClientReset(c, userId, t) ==
    [GetOrCreateClient(c, userId, t) EXCEPT
        ![userId] = [lastPoll |-> t, messages |-> <<>>]]

\* routes.ts:147-148
RegisterClient(c, userId, t) ==
    [GetOrCreateClient(c, userId, t) EXCEPT ![userId].lastPoll = t]

\* Slip: `!to && !type`
MissingBoth(body) == Falsy(body.to) /\ Falsy(body.type)

\* routes.ts:158  `!to || !type`
MissingFields(body) == Falsy(body.to) \/ Falsy(body.type)

\* routes.ts:163-167  `{ type, from: senderId, ...payload }`: a later property
\* of the literal replaces an earlier one of the same name.
BuildMessage(type, senderId, payload) ==
    payload @@ (("type" :> type) @@ ("from" :> JNum(senderId)))

\* Slip: `pop()` for `shift()`, the newest message is dropped.
TrimQueueNewest(q) == IF Len(q) > QueueCap THEN SubSeq(q, 1, Len(q) - 1) ELSE q

\* routes.ts:172-174
TrimQueue(q) == IF Len(q) > QueueCap THEN Tail(q) ELSE q

\* Slip: `unshift` for `push`.
PushMessageFront(c, key, item, t) ==
    LET c1 == GetOrCreateClient(c, key, t)
    IN  [c1 EXCEPT ![key].messages = TrimQueue(<<item>> \o @)]

\* Slip: the send counts as activity of the addressee.
PushMessageTouch(c, key, item, t) ==
    LET c1 == GetOrCreateClient(c, key, t)
    IN  [c1 EXCEPT ![key] = [lastPoll |-> t, messages |-> TrimQueue(Append(@.messages, item))]]

\* routes.ts:162, 169-174: the queue of mailbox `key` after the push
PushMessage(c, key, item, t) ==
    LET c1 == GetOrCreateClient(c, key, t)
    IN  [c1 EXCEPT ![key].messages = TrimQueue(Append(@, item))]

\* Slip: the timestamp is not refreshed.
TouchClientNot(client, t) == client

\* routes.ts:188  `client.lastPoll = Date.now()`
TouchClient(client, t) == [client EXCEPT !.lastPoll = t]

\* Slip: the queue is not replaced by an empty one.
DrainClientNot(client) == client

\* routes.ts:191  `client.messages = []`
DrainClient(client) == [client EXCEPT !.messages = <<>>]

\* routes.ts:186-191
PollClient(c, userId, t) ==
    [GetOrCreateClient(c, userId, t) EXCEPT ![userId] = DrainClient(TouchClient(@, t))]

\* routes.ts:190  `[...client.messages]`
PolledMessages(c, userId, t) == GetOrCreateClient(c, userId, t)[userId].messages

\* Slip: `>=` for `>`.
IsStaleInclusive(client, t) == t - client.lastPoll >= StaleMs

\* routes.ts:131
IsStale(client, t) == t - client.lastPoll > StaleMs

\* routes.ts:127-134
SweepClients(c, t) ==
    LET keep == {k \in DOMAIN c : ~IsStale(c[k], t)}
    IN  [k \in keep |-> c[k]]

----------------------------------------------------------------------------
(* Requests                                                                *)

Req(op, hdr, to, type, payload) ==
    [op |-> op, hdr |-> hdr, to |-> to, type |-> type, payload |-> payload]

\* routes.ts:95, 102  `Number(req.headers["user-id"])`
HeaderUser(req) == ToNumber(req.hdr)

\* routes.ts:102-105: storage.getUser finds the user
Authenticated(req) == HeaderUser(req) \in StoredUsers

NoResponse == [op |-> "none", user |-> NaN, status |-> 0, messages |-> <<>>]

Reply(op, user, status, messages) ==
    [op |-> op, user |-> user, status |-> status, messages |-> messages]

\* The ids, in acceptance order, of the messages accepted for mailbox `key`
\* since the last poll of `key`.
OpenIds(key) ==
    SelectSeq([i \in 1..Len(log) |-> i], LAMBDA s : log[s].to = key /\ log[s].open)

SeqIds(q) == [i \in 1..Len(q) |-> q[i].seq]

IdSet(q) == {q[i].seq : i \in 1..Len(q)}

----------------------------------------------------------------------------
(* The call context: CallProvider                                          *)

\* part_001:794-802: the state after the first render; `toasts` is the
\* number of toasts shown so far.
NoCall ==
    [isInCall |-> FALSE, isCalling |-> FALSE, callPartner |-> "null",
     messages |-> <<>>, messageIdCounter |-> 0, toasts |-> 0]

\* part_001:809-812, 820-823, 829-832, 838-841: `toast({title, ...})`; the
\* model keeps the number of toasts and not their text.
toast(c, title) == [c EXCEPT !.toasts = (@ + 1) % ToastWrap]

\* part_001:804-813
startCall(c, partner) ==
    toast([c EXCEPT !.callPartner = partner, !.isCalling = TRUE], "Calling...")

\* part_001:815-824
endCall(c) ==
    toast([c EXCEPT !.isInCall = FALSE, !.isCalling = FALSE, !.callPartner = "null",
                    !.messages = <<>>],
          "Call ended")

\* part_001:826-833
acceptCall(c) ==
    toast([c EXCEPT !.isInCall = TRUE, !.isCalling = FALSE], "Call connected")

\* part_001:835-842
rejectCall(c) ==
    toast([c EXCEPT !.isCalling = FALSE, !.callPartner = "null"], "Call rejected")

\* part_001:852-858
NewMessage(c, message) ==
    [id |-> c.messageIdCounter, sender |-> message.sender, text |-> message.text,
     translatedText |-> message.translatedText]

addMessageFirst(c, message) ==
    IF Falsy(message.sender) \/ Falsy(message.text)
    THEN c
    ELSE [c EXCEPT !.messages = <<NewMessage(c, message)>> \o @,
                   !.messageIdCounter = @ + 1]

\* part_001:849-861; the timestamp of the entry is left out.
addMessage(c, message) ==
    IF Falsy(message.sender) \/ Falsy(message.text)
    THEN c
    ELSE [c EXCEPT !.messages = Append(@, NewMessage(c, message)),
                   !.messageIdCounter = @ + 1]

----------------------------------------------------------------------------
(* The VideoCall page                                                      *)

\* video-call.tsx:21-33: a page instance after its first render, with the
\* stage of the agoraClient.join() started by its effect (part_002:94).
NewPage ==
    [mounted |-> TRUE, isVideoEnabled |-> TRUE, isAudioEnabled |-> TRUE,
     isConnected |-> FALSE, callDuration |-> 0,
     interval |-> "null", join |-> "token"]

\* video-call.tsx:25: a state setter of an unmounted component changes nothing.
setIsConnected(p, v) == IF p.mounted THEN [p EXCEPT !.isConnected = v] ELSE p

\* video-call.tsx:24
setCallDuration(p, v) == IF p.mounted THEN [p EXCEPT !.callDuration = v] ELSE p

ClearIntervalKeeps(ref) == ref

\* video-call.tsx:92-94, 100-102, 120-122: `if (ref.current) clearInterval(ref.current)`;
\* the ref keeps the id of the cleared interval.
ClearInterval(ref) == IF ref = "null" THEN "null" ELSE "cleared"

\* video-call.tsx:99-108
startDurationTimer(p) ==
    [setCallDuration([p EXCEPT !.interval = ClearInterval(@)], 0) EXCEPT !.interval = "active"]

----------------------------------------------------------------------------
(* The AgoraClient singleton and the SDK client it wraps                   *)

\* part_002:12-31: no handlers, no tracks, the SDK client created and not
\* joined; `orphans` counts open tracks the wrapper holds no reference to and
\* `exception` tells that the SDK client has raised an exception in the
\* channel it is in.
NoSession ==
    [handlers |-> 0, audio |-> "null", video |-> "null", sdk |-> "DISCONNECTED",
     published |-> FALSE, remote |-> "absent", orphans |-> 0, exception |-> FALSE,
     audioEnabled |-> TRUE, videoEnabled |-> TRUE]

\* part_002:71-86
setEventHandlers(a, i) == [a EXCEPT !.handlers = i]

\* `track?.close()`
CloseTrack(t) == IF t = "null" THEN "null" ELSE "closed"

leaveTracksOnly(a) == [a EXCEPT !.audio = CloseTrack(@), !.video = CloseTrack(@)]

\* part_002:124-128: the tracks referenced are closed and the SDK client
\* leaves the channel: it is disconnected, nothing is published and the
\* remote user is no longer reported.
leave(a) ==
    [a EXCEPT !.audio = CloseTrack(@), !.video = CloseTrack(@),
              !.sdk = "DISCONNECTED", !.published = FALSE, !.remote = "absent",
              !.exception = FALSE]

\* part_002:103, 109 with 127: client.leave() rejects the client.join() or
\* client.publish() that is pending; join() goes to its catch block
\* (part_002:116-121) and initializeCall to its own (video-call.tsx:80-82),
\* which both only log.
AbortJoins(ps) ==
    [i \in DOMAIN ps |->
        IF ps[i].join \in {"join", "publish"} THEN [ps[i] EXCEPT !.join = "failed"] ELSE ps[i]]

\* part_002:106-108: the new tracks replace the references held.
OpenTracks(a) ==
    [a EXCEPT !.orphans = @ + (IF a.audio = "open" THEN 1 ELSE 0)
                            + (IF a.video = "open" THEN 1 ELSE 0),
              !.audio = "open", !.video = "open",
              !.audioEnabled = TRUE, !.videoEnabled = TRUE]

toggleAudioUnguarded(a, enabled) == [a EXCEPT !.audioEnabled = enabled]

\* part_002:130-134: setEnabled on the track referenced; `audioEnabled` is
\* the enabled state of the open track (a track is created enabled), and a
\* closed track has no media left to enable or disable.
toggleAudio(a, enabled) ==
    IF a.audio = "open" THEN [a EXCEPT !.audioEnabled = enabled] ELSE a

\* part_002:136-140
toggleVideo(a, enabled) ==
    IF a.video = "open" THEN [a EXCEPT !.videoEnabled = enabled] ELSE a

\* video-call.tsx:118-125 for page instance i
EndedPages(ps, i) == [AbortJoins(ps) EXCEPT ![i].interval = ClearInterval(@)]

\* The phase of page instance i as its user sees it.
Phase(i) ==
    IF location # "/call" THEN "ended"
    ELSE IF pages[i].isConnected THEN "connected"
    ELSE "connecting"

CallInit ==
    /\ ctx = NoCall
    /\ pages = <<>>
    /\ location = "/"
    /\ agora = NoSession
    /\ translating = 0
    /\ lastEnd = "none"

\* The user opens the call route: the page renders and its effect runs
\* (video-call.tsx:41-87): the handlers are installed and initializeCall
\* calls agoraClient.join(), which suspends on getAgoraToken (part_002:94).
Mount ==
    /\ location = "/"
    /\ \A i \in DOMAIN pages : ~pages[i].mounted
    /\ Len(pages) < MaxMounts
    /\ location' = "/call"
    /\ pages' = Append(pages, NewPage)
    /\ agora' = setEventHandlers(agora, Len(pages) + 1)
    /\ lastEnd' = "none"
    /\ UNCHANGED <<ctx, translating, relayVars, sideVars>>

\* part_002:94-103: the token has arrived and client.join() is called; the
\* SDK refuses it unless the client is disconnected.
TokenArrives(i) ==
    /\ pages[i].join = "token"
    /\ IF agora.sdk = "DISCONNECTED"
       THEN /\ agora' = [agora EXCEPT !.sdk = "CONNECTING"]
            /\ pages' = [pages EXCEPT ![i].join = "join"]
       ELSE /\ pages' = [pages EXCEPT ![i].join = "failed"]
            /\ UNCHANGED agora
    /\ UNCHANGED <<ctx, location, translating, lastEnd, relayVars, sideVars>>

\* part_002:94-101 with 116-121 and video-call.tsx:80-82: the token request
\* fails or its answer lacks the app id or the token; both catch blocks log.
TokenFails(i) ==
    /\ pages[i].join = "token"
    /\ pages' = [pages EXCEPT ![i].join = "failed"]
    /\ UNCHANGED <<ctx, location, agora, translating, lastEnd, relayVars, sideVars>>

\* part_002:103-106: the channel is joined and the tracks are requested.
ChannelJoined(i) ==
    /\ pages[i].join = "join"
    /\ agora' = [agora EXCEPT !.sdk = "CONNECTED"]
    /\ pages' = [pages EXCEPT ![i].join = "tracks"]
    /\ UNCHANGED <<ctx, location, translating, lastEnd, relayVars, sideVars>>

\* part_002:103 with 116-121: the SDK fails to join.
ChannelJoinFails(i) ==
    /\ pages[i].join = "join"
    /\ agora' = [agora EXCEPT !.sdk = "DISCONNECTED"]
    /\ pages' = [pages EXCEPT ![i].join = "failed"]
    /\ UNCHANGED <<ctx, location, translating, lastEnd, relayVars, sideVars>>

\* part_002:106-109: the tracks are created and stored and publish() is
\* called; the SDK refuses it unless the client is joined.
TracksCreated(i) ==
    /\ pages[i].join = "tracks"
    /\ agora' = OpenTracks(agora)
    /\ pages' = [pages EXCEPT ![i].join = IF agora.sdk = "CONNECTED" THEN "publish" ELSE "failed"]
    /\ UNCHANGED <<ctx, location, translating, lastEnd, relayVars, sideVars>>

\* part_002:106 with 116-121: camera or microphone is not granted.
TracksDenied(i) ==
    /\ pages[i].join = "tracks"
    /\ pages' = [pages EXCEPT ![i].join = "failed"]
    /\ UNCHANGED <<ctx, location, agora, translating, lastEnd, relayVars, sideVars>>

\* part_002:109-115 and video-call.tsx:72-79: the tracks are published,
\* onLocalUserJoined of the handlers installed runs startDurationTimer
\* (video-call.tsx:55-58), join() returns and initializeCall sets the page
\* connected.
Published(i) ==
    /\ pages[i].join = "publish"
    /\ agora' = [agora EXCEPT !.published = TRUE]
    /\ LET h == agora.handlers
           timed == IF h = 0 THEN pages ELSE [pages EXCEPT ![h] = startDurationTimer(@)]
       IN  pages' = [timed EXCEPT ![i] = [setIsConnected(@, TRUE) EXCEPT !.join = "done"]]
    /\ UNCHANGED <<ctx, location, translating, lastEnd, relayVars, sideVars>>

\* part_002:109 with 116-121: the SDK fails to publish.
PublishFails(i) ==
    /\ pages[i].join = "publish"
    /\ pages' = [pages EXCEPT ![i].join = "failed"]
    /\ UNCHANGED <<ctx, location, agora, translating, lastEnd, relayVars, sideVars>>

\* part_002:36-37: a remote user publishes video and the listener suspends
\* on subscribe().
RemotePublishes ==
    /\ agora.sdk = "CONNECTED"
    /\ agora.remote = "absent"
    /\ agora' = [agora EXCEPT !.remote = "subscribing"]
    /\ UNCHANGED <<ctx, pages, location, translating, lastEnd, relayVars, sideVars>>

\* part_002:39-43 and video-call.tsx:44-49: subscribed; the remote video
\* plays and the page of the handlers installed is set connected.
Subscribed ==
    /\ agora.remote = "subscribing"
    /\ agora' = [agora EXCEPT !.remote = "video"]
    /\ pages' = IF agora.handlers = 0 THEN pages
                ELSE [pages EXCEPT ![agora.handlers] = setIsConnected(@, TRUE)]
    /\ UNCHANGED <<ctx, location, translating, lastEnd, relayVars, sideVars>>

\* video-call.tsx:118-125 called on page instance i in phase ph.
HandleEndCall(i, ph) ==
    /\ agora' = leave(agora)
    /\ pages' = EndedPages(pages, i)
    /\ ctx' = endCall(ctx)
    /\ location' = "/"
    /\ lastEnd' = ph
    /\ UNCHANGED <<translating, relayVars, sideVars>>

\* The step of leave() that throws or rejects, if one does.
Faults == {"none", "audioClose", "videoClose", "clientLeave"}

\* part_002:124-128 when step `fault` fails: leave() is async, the steps
\* after the failing one are skipped and its promise rejects. A close() that
\* throws has stopped the track (`stopped`) or has not.
leaveFailing(a, fault, stopped) ==
    CASE fault = "audioClose" ->
            [a EXCEPT !.audio = IF stopped THEN CloseTrack(@) ELSE @]
      [] fault = "videoClose" ->
            [a EXCEPT !.audio = CloseTrack(@),
                      !.video = IF stopped THEN CloseTrack(@) ELSE @]
      [] fault = "clientLeave" -> leaveTracksOnly(a)
      [] OTHER -> leave(a)

\* video-call.tsx:118-125 on page instance i when step `fault` of leave()
\* fails: the promise of leave() is not awaited, so the statements after the
\* call run whatever becomes of it.
HandleEndCallFailing(i, fault, stopped) ==
    /\ pages[i].mounted
    /\ fault = "audioClose" => agora.audio = "open"
    /\ fault = "videoClose" => agora.video = "open"
    /\ agora' = leaveFailing(agora, fault, stopped)
    /\ pages' = [IF fault = "none" THEN AbortJoins(pages) ELSE pages
                    EXCEPT ![i].interval = ClearInterval(@)]
    /\ ctx' = endCall(ctx)
    /\ location' = "/"
    /\ lastEnd' = Phase(i)
    /\ UNCHANGED <<translating, relayVars, sideVars>>

\* video-call.tsx:50-54: onRemoteUserLeft of the handlers installed, called
\* for the SDK event `cause`.
OnRemoteUserLeft(cause) ==
    IF agora.handlers = 0
    THEN UNCHANGED <<callVars, relayVars, sideVars>>
    ELSE /\ agora' = leave(agora)
         /\ pages' = EndedPages([pages EXCEPT ![agora.handlers] = setIsConnected(@, FALSE)],
                                agora.handlers)
         /\ ctx' = endCall(ctx)
         /\ location' = "/"
         /\ lastEnd' = cause
         /\ UNCHANGED <<translating, relayVars, sideVars>>

\* part_002:50-56: the remote user stops publishing video.
RemoteUnpublishes ==
    /\ agora.sdk = "CONNECTED"
    /\ agora.remote = "video"
    /\ OnRemoteUserLeft("remoteUnpublished")

\* part_002:58-62: a remote user leaves the channel.
RemoteLeaves ==
    /\ agora.sdk = "CONNECTED"
    /\ OnRemoteUserLeft("remoteLeft")

\* part_002:64-68 and video-call.tsx:59-61: the SDK client raises an
\* exception in the channel; onError of the handlers installed logs it.
RtcException ==
    /\ agora.sdk = "CONNECTED"
    /\ ~agora.exception
    /\ agora' = [agora EXCEPT !.exception = TRUE]
    /\ UNCHANGED <<ctx, pages, location, translating, lastEnd, relayVars, sideVars>>

\* The end-call control of a page that is rendered (video-call.tsx:118-125).
UserEnds(i) ==
    /\ pages[i].mounted
    /\ HandleEndCall(i, Phase(i))

\* video-call.tsx:162: the back button only changes the route.
UserBack(i) ==
    /\ pages[i].mounted
    /\ location = "/call"
    /\ location' = "/"
    /\ UNCHANGED <<ctx, pages, agora, translating, lastEnd, relayVars, sideVars>>

\* video-call.tsx:21-25: the state of a page that is unmounted is discarded;
\* its refs and the closures of its effect live on.
Discard(p) ==
    [p EXCEPT !.mounted = FALSE, !.isConnected = FALSE, !.callDuration = 0,
              !.isVideoEnabled = TRUE, !.isAudioEnabled = TRUE]

\* video-call.tsx:89-95: the route no longer shows the page; the cleanup of
\* its effect runs.
Unmount(i) ==
    /\ pages[i].mounted
    /\ location = "/"
    /\ agora' = leave(agora)
    /\ pages' = [AbortJoins(pages) EXCEPT ![i] = Discard([@ EXCEPT !.interval = ClearInterval(@)])]
    /\ UNCHANGED <<ctx, location, translating, lastEnd, relayVars, sideVars>>

\* video-call.tsx:105-107: the interval callback of page instance i.
TimerTick(i) ==
    /\ pages[i].interval = "active"
    /\ pages[i].callDuration < MaxDuration
    /\ pages' = [pages EXCEPT ![i] = setCallDuration(@, @.callDuration + 1)]
    /\ UNCHANGED <<ctx, location, agora, translating, lastEnd, relayVars, sideVars>>

\* video-call.tsx:128-132: the microphone control of a page that is rendered.
HandleToggleAudio(i) ==
    /\ pages[i].mounted
    /\ LET newState == ~pages[i].isAudioEnabled
       IN  /\ pages' = [pages EXCEPT ![i].isAudioEnabled = newState]
           /\ agora' = toggleAudio(agora, newState)
    /\ UNCHANGED <<ctx, location, translating, lastEnd, relayVars, sideVars>>

\* video-call.tsx:135-139: the camera control of a page that is rendered.
HandleToggleVideo(i) ==
    /\ pages[i].mounted
    /\ LET newState == ~pages[i].isVideoEnabled
       IN  /\ pages' = [pages EXCEPT ![i].isVideoEnabled = newState]
           /\ agora' = toggleVideo(agora, newState)
    /\ UNCHANGED <<ctx, location, translating, lastEnd, relayVars, sideVars>>

\* Callers of the context (part_001:863-880).
Partners == {"ana"}

StartCall ==
    /\ \E partner \in Partners : ctx' = startCall(ctx, partner)
    /\ UNCHANGED <<pages, location, agora, translating, lastEnd, relayVars, sideVars>>

AcceptCall ==
    /\ ctx' = acceptCall(ctx)
    /\ UNCHANGED <<pages, location, agora, translating, lastEnd, relayVars, sideVars>>

RejectCall ==
    /\ ctx' = rejectCall(ctx)
    /\ UNCHANGED <<pages, location, agora, translating, lastEnd, relayVars, sideVars>>

\* The text the panel passes to addMessage: the input, which is not blank
\* (part_004:49), or the transcription of a recording (part_004:107-109).
Texts == {JStr(""), JStr("hola")}

\* The translation that comes with it (part_004:54, 100-104).
Translations == {JUndef, JStr("hello")}

\* part_004:57-61, 107-111: the argument of addMessage, with the signed-in
\* user as the sender.
Utterances ==
    {[sender |-> JStr("me"), text |-> t, translatedText |-> tr] :
        t \in Texts, tr \in Translations}

\* part_004:48-54, 90-105: the panel of the page shown starts to send a
\* message and suspends on the translation; the typed message needs a call
\* partner. At most max messages are sent in one run.
SendMessageUpTo(max) ==
    /\ \E i \in DOMAIN pages : pages[i].mounted
    /\ ctx.callPartner # "null"
    /\ ctx.messageIdCounter + translating < max
    /\ translating' = translating + 1
    /\ UNCHANGED <<ctx, pages, location, agora, lastEnd, relayVars, sideVars>>

SendMessage == SendMessageUpTo(MaxTranscript)

\* part_004:57-61, 107-111: the translation has arrived and the message,
\* one of `utterances`, is added.
TranslatedOf(utterances) ==
    /\ translating > 0
    /\ translating' = translating - 1
    /\ \E message \in utterances : ctx' = addMessage(ctx, message)
    /\ UNCHANGED <<pages, location, agora, lastEnd, relayVars, sideVars>>

Translated == TranslatedOf(Utterances)

\* part_004:64-69, 112-117: the translation fails.
TranslationFails ==
    /\ translating > 0
    /\ translating' = translating - 1
    /\ UNCHANGED <<ctx, pages, location, agora, lastEnd, relayVars, sideVars>>

----------------------------------------------------------------------------
(* Transcription polling: TranslationService.pollTranscriptionResult       *)

\* main.tsx:95  const maxAttempts = 30
maxAttempts == 30

\* pollTranscriptionResult calls in the life of the service
MaxPolls == 2

\* What GET /api/speech-to-text/:id answers: not ok, or the transcript
\* object of the speech service with its status and text.
TranscriptTexts == {"", "hola"}

Answers ==
    {[ok |-> FALSE, status |-> "error", text |-> ""]}
        \cup {[ok |-> TRUE, status |-> st, text |-> ""] : st \in {"queued", "processing", "error"}}
        \cup {[ok |-> TRUE, status |-> "completed", text |-> t] : t \in TranscriptTexts}

\* part_001:524-545: what getTranscriptionResult makes of an answer: it
\* throws, returns data.text, or returns null.
getTranscriptionResult(answer) ==
    IF ~answer.ok \/ answer.status = "error"
    THEN [threw |-> TRUE, value |-> JNull]
    ELSE IF answer.status = "completed"
         THEN [threw |-> FALSE, value |-> JStr(answer.text)]
         ELSE [threw |-> FALSE, value |-> JNull]

\* main.tsx:94-100: a new promise; checkResult runs at once up to its await.
NewPoll == [attempts |-> 1, stage |-> "fetching", timer |-> FALSE,
            text |-> JNull, last |-> "none"]

\* clearTimeout(id): the timeout of poll `id`, if it is still pending, never fires.
clearTimeout(ps, id) ==
    [j \in DOMAIN ps |-> IF j = id THEN [ps[j] EXCEPT !.timer = FALSE] ELSE ps[j]]

\* What the poll has been told by its last answer.
Told(answer) == IF answer.ok THEN answer.status ELSE "failed"

\* main.tsx:125  pollTranscriptionResult(transcriptionId)
PollStarts ==
    /\ Len(polls) < MaxPolls
    /\ polls' = Append(polls, NewPoll)
    /\ UNCHANGED <<transcriptionTimerId, recorder, users, signups, relayVars, callVars>>

\* main.tsx:100-121: checkResult after `await getTranscriptionResult`.
AnswerArrives(i, answer) ==
    LET result == getTranscriptionResult(answer)
        told == [polls EXCEPT ![i].last = Told(answer)]
    IN  /\ polls[i].stage = "fetching"
        /\ IF result.threw
           THEN /\ polls' = [told EXCEPT ![i].stage = "rejected"]
                /\ UNCHANGED transcriptionTimerId
           ELSE IF ~Falsy(result.value)
           THEN /\ polls' = [IF transcriptionTimerId # 0
                             THEN clearTimeout(told, transcriptionTimerId)
                             ELSE told
                                 EXCEPT ![i].stage = "resolved", ![i].text = result.value]
                /\ transcriptionTimerId' = 0
           ELSE IF polls[i].attempts >= maxAttempts
           THEN /\ polls' = [told EXCEPT ![i].stage = "timedout"]
                /\ UNCHANGED transcriptionTimerId
           ELSE /\ polls' = [told EXCEPT ![i].stage = "waiting", ![i].timer = TRUE]
                /\ transcriptionTimerId' = i
        /\ UNCHANGED <<recorder, users, signups, relayVars, callVars>>

\* main.tsx:117, 97-100: the 2 s timeout fires; checkResult runs up to its await.
PollTimerFires(i) ==
    /\ polls[i].stage = "waiting"
    /\ polls[i].timer
    /\ polls' = [polls EXCEPT ![i].attempts = @ + 1, ![i].stage = "fetching",
                              ![i].timer = FALSE]
    /\ UNCHANGED <<transcriptionTimerId, recorder, users, signups, relayVars, callVars>>

----------------------------------------------------------------------------
(* Speech recording: TranslationService.startRecording / stopRecording     *)

\* MediaRecorders created in the life of the service
MaxRecorders == 3

\* stop listeners attached to one MediaRecorder
MaxListeners == 2

\* main.tsx:30-32: not recording, no chunks, no MediaRecorder. `recorders`
\* are the MediaRecorders created so far, each with its state and the number
\* of stop listeners attached to it; `result` is what the last
\* stopRecording call returned and `held` tells whether the recorder the
\* service referenced at that call was recording.
NoRecording ==
    [isRecording |-> FALSE, audioChunks |-> <<>>, mediaRecorder |-> 0,
     recorders |-> <<>>, result |-> "none", held |-> FALSE]

\* The MediaRecorder the service references is recording.
RecorderActive(r) ==
    r.mediaRecorder # 0 /\ r.recorders[r.mediaRecorder].state = "recording"

\* main.tsx:63-78: null unless recording; else a promise with a stop
\* listener on the recorder referenced, and stop() is called on it, which
\* throws inside the promise (rejecting it) unless the recorder is recording.
stopRecording(r) ==
    IF ~r.isRecording \/ r.mediaRecorder = 0
    THEN [r EXCEPT !.result = "null", !.held = RecorderActive(r)]
    ELSE LET id == r.mediaRecorder
         IN  [r EXCEPT !.recorders[id].listeners = @ + 1,
                       !.recorders[id].state = IF @ = "recording" THEN "stopping" ELSE @,
                       !.result = IF r.recorders[id].state = "recording"
                                  THEN "promise" ELSE "rejected",
                       !.held = RecorderActive(r)]

\* main.tsx:36-60: a recording that is on is stopped without awaiting it or
\* using what it returns; the chunks are reset, the flag is set and a new
\* MediaRecorder is created, referenced and started.
startRecording(r) ==
    LET r1 == IF r.isRecording
              THEN [stopRecording(r) EXCEPT !.result = r.result, !.held = r.held]
              ELSE r
    IN  [r1 EXCEPT !.audioChunks = <<>>,
                   !.isRecording = TRUE,
                   !.recorders = Append(@, [state |-> "recording", listeners |-> 0]),
                   !.mediaRecorder = Len(r1.recorders) + 1]

\* main.tsx:49-53: dataavailable of recorder id with data of size `size`.
dataavailable(r, id, size) ==
    IF size > 0 THEN [r EXCEPT !.audioChunks = Append(@, id)] ELSE r

\* main.tsx:69-74: the stop listeners of recorder id run, one after the
\* other; each takes the chunks of the service, clears the flag and the
\* chunks and resolves its promise.
stopListeners(r, id) ==
    IF r.recorders[id].listeners = 0
    THEN r
    ELSE [r EXCEPT !.isRecording = FALSE, !.audioChunks = <<>>,
                   !.recorders[id].listeners = 0]

\* The page calls TranslationService.startRecording (part_004:74-78).
StartRecording ==
    /\ Len(recorder.recorders) < MaxRecorders
    /\ recorder.mediaRecorder # 0 =>
          recorder.recorders[recorder.mediaRecorder].listeners < MaxListeners
    /\ recorder' = startRecording(recorder)
    /\ UNCHANGED <<polls, transcriptionTimerId, users, signups, relayVars, callVars>>

\* The page calls TranslationService.stopRecording (part_004:96).
StopRecording ==
    /\ recorder.mediaRecorder # 0 =>
          recorder.recorders[recorder.mediaRecorder].listeners < MaxListeners
    /\ recorder' = stopRecording(recorder)
    /\ UNCHANGED <<polls, transcriptionTimerId, users, signups, relayVars, callVars>>

\* A MediaRecorder that was stopped delivers its data and its stop event.
RecorderStops(id, size) ==
    /\ recorder.recorders[id].state = "stopping"
    /\ recorder' = [stopListeners(dataavailable(recorder, id, size), id)
                       EXCEPT !.recorders[id].state = "inactive"]
    /\ UNCHANGED <<polls, transcriptionTimerId, users, signups, relayVars, callVars>>

----------------------------------------------------------------------------
(* User registration: POST /api/users on MemStorage                        *)

\* POST /api/users requests in the life of the server
MaxSignups == 2

\* storage.ts:40-57: the storage after construction holds the sample user
\* under id 1; the next id is 2.
SampleUsers ==
    [rows |-> <<[username |-> "johndoe", email |-> "john@example.com"]>>,
     currentUserId |-> 2]

\* Request bodies that pass insertUserSchema.
Usernames == {"johndoe", "ana"}
Emails == {"john@example.com", "ana@example.com"}
SignupBodies == [username : Usernames, email : Emails]

\* storage.ts:78-82
getUserByUsername(u, username) == \E id \in DOMAIN u.rows : u.rows[id].username = username

\* storage.ts:84-88
getUserByEmail(u, email) == \E id \in DOMAIN u.rows : u.rows[id].email = email

\* storage.ts:90-100: ids are consecutive from 1, so the map is the list of
\* its values by id.
createUser(u, insertUser) ==
    [rows |-> Append(u.rows, insertUser), currentUserId |-> u.currentUserId + 1]

\* routes.ts:199-202: the body is parsed and getUserByUsername is called,
\* which looks the name up at once; the handler suspends on its promise.
SignupArrives(body) ==
    /\ Len(signups) < MaxSignups
    /\ signups' = Append(signups, [body |-> body, stage |-> "username",
                                   found |-> getUserByUsername(users, body.username),
                                   status |-> 0, message |-> ""])
    /\ UNCHANGED <<users, polls, transcriptionTimerId, recorder, relayVars, callVars>>

\* routes.ts:203-205: the name was found.
UsernameTaken(r) ==
    /\ signups[r].stage = "username"
    /\ signups[r].found
    /\ signups' = [signups EXCEPT ![r].stage = "done", ![r].status = 400,
                                  ![r].message = "Username already taken"]
    /\ UNCHANGED <<users, polls, transcriptionTimerId, recorder, relayVars, callVars>>

\* routes.ts:203-207: the name was not found; getUserByEmail looks the
\* email up and the handler suspends again.
UsernameFree(r) ==
    /\ signups[r].stage = "username"
    /\ ~signups[r].found
    /\ signups' = [signups EXCEPT ![r].stage = "email",
                                  ![r].found = getUserByEmail(users, signups[r].body.email)]
    /\ UNCHANGED <<users, polls, transcriptionTimerId, recorder, relayVars, callVars>>

\* routes.ts:208-210: the email was found.
EmailInUse(r) ==
    /\ signups[r].stage = "email"
    /\ signups[r].found
    /\ signups' = [signups EXCEPT ![r].stage = "done", ![r].status = 400,
                                  ![r].message = "Email already in use"]
    /\ UNCHANGED <<users, polls, transcriptionTimerId, recorder, relayVars, callVars>>

\* routes.ts:208-212: the email was not found; createUser stores the user
\* and the handler suspends on its promise.
EmailFree(r) ==
    /\ signups[r].stage = "email"
    /\ ~signups[r].found
    /\ users' = createUser(users, signups[r].body)
    /\ signups' = [signups EXCEPT ![r].stage = "create", ![r].found = FALSE]
    /\ UNCHANGED <<polls, transcriptionTimerId, recorder, relayVars, callVars>>

\* routes.ts:213: 201 with the user.
SignupCreated(r) ==
    /\ signups[r].stage = "create"
    /\ signups' = [signups EXCEPT ![r].stage = "done", ![r].status = 201]
    /\ UNCHANGED <<users, polls, transcriptionTimerId, recorder, relayVars, callVars>>

----------------------------------------------------------------------------
(* Relay actions                                                           *)

Init ==
    /\ clients = NoClients
    /\ now = 0
    /\ inflight = EmptyBag
    /\ response = NoResponse
    /\ log = <<>>
    /\ expected = <<>>
    /\ ticks = 0
    /\ CallInit
    /\ polls = <<>>
    /\ transcriptionTimerId = 0
    /\ recorder = NoRecording
    /\ users = SampleUsers
    /\ signups = <<>>

\* routes.ts:95-105: authenticate answers 401, without the header at once
\* and for an unknown user after the lookup; the handler is not run.
Unauthorized(req) ==
    /\ response' = Reply(req.op, HeaderUser(req), 401, <<>>)
    /\ expected' = <<>>
    /\ UNCHANGED <<clients, now, log, ticks, callVars, sideVars>>

\* routes.ts:146-150
Register(req) ==
    /\ req.op = "register"
    /\ clients' = RegisterClient(clients, HeaderUser(req), now)
    /\ response' = Reply("register", HeaderUser(req), 200, <<>>)
    /\ expected' = <<>>
    /\ UNCHANGED <<now, log, ticks, callVars, sideVars>>

\* routes.ts:153-181
Send(req) ==
    /\ req.op = "send"
    /\ expected' = <<>>
    /\ IF MissingFields(req)
       THEN /\ response' = Reply("send", HeaderUser(req), 400, <<>>)
            /\ UNCHANGED <<clients, log>>
       ELSE LET key == ToNumber(req.to)
                id == Len(log) + 1
                item == [seq |-> id,
                         msg |-> BuildMessage(req.type, HeaderUser(req), req.payload)]
                before == GetOrCreateClient(clients, key, now)[key].messages
                after == PushMessage(clients, key, item, now)
                lost == (IdSet(before) \cup {id}) \ IdSet(after[key].messages)
            IN  /\ clients' = after
                /\ log' = Append([s \in DOMAIN log |->
                                    IF s \in lost
                                    THEN [log[s] EXCEPT !.dropped = TRUE]
                                    ELSE log[s]],
                                 [to |-> key, sender |-> HeaderUser(req),
                                  type |-> req.type, payload |-> req.payload,
                                  open |-> TRUE, polledBy |-> <<>>,
                                  dropped |-> id \in lost, evicted |-> FALSE])
                /\ response' = Reply("send", HeaderUser(req), 200, <<>>)
    /\ UNCHANGED <<now, ticks, callVars, sideVars>>

\* routes.ts:184-194
Poll(req) ==
    /\ req.op = "poll"
    /\ LET userId == HeaderUser(req)
           messages == PolledMessages(clients, userId, now)
       IN  /\ clients' = PollClient(clients, userId, now)
           /\ response' = Reply("poll", userId, 200, messages)
           /\ expected' = OpenIds(userId)
           /\ log' = [s \in DOMAIN log |->
                        [log[s] EXCEPT
                            !.polledBy = IF s \in IdSet(messages) THEN Append(@, userId) ELSE @,
                            !.open = IF log[s].to = userId THEN FALSE ELSE @]]
    /\ UNCHANGED <<now, ticks, callVars, sideVars>>

\* The route the request is sent to, run after authenticate called next().
Handler(req) == Register(req) \/ Send(req) \/ Poll(req)

\* A request handled from its arrival to its response with no other request
\* in between: authenticate (routes.ts:94-113), then the handler.
Serve(req) ==
    /\ UNCHANGED inflight
    /\ IF Authenticated(req) THEN Handler(req) ELSE Unauthorized(req)

\* routes.ts:94-102: a request reaches authenticate and suspends on
\* `await storage.getUser(...)`; without the header it is answered at once.
Arrive(req) ==
    IF Falsy(req.hdr)
    THEN UNCHANGED inflight /\ Unauthorized(req)
    ELSE /\ inflight' = inflight (+) SetToBag({req})
         /\ UNCHANGED <<clients, now, response, log, expected, ticks, callVars, sideVars>>

\* routes.ts:103-111: the lookup has settled; authenticate answers 401 or
\* calls next(), which runs the handler in the same turn.
Resume(req) ==
    /\ BagIn(req, inflight)
    /\ inflight' = inflight (-) SetToBag({req})
    /\ IF Authenticated(req) THEN Handler(req) ELSE Unauthorized(req)

\* routes.ts:126-135: one run of the interval callback. The timer fires every
\* 60 s from the start of the process, with whatever delay the event loop adds:
\* a run may find any clock value from 60 s on.
Sweep ==
    /\ now >= SweepIntervalMs
    /\ clients' = SweepClients(clients, now)
    /\ LET gone == UNION {IdSet(clients[k].messages) : k \in DOMAIN clients \ DOMAIN clients'}
       IN  log' = [s \in DOMAIN log |->
                     IF s \in gone THEN [log[s] EXCEPT !.evicted = TRUE] ELSE log[s]]
    /\ UNCHANGED <<now, inflight, response, expected, ticks, callVars, sideVars>>

\* Time passes.
ClockSteps == {1, StaleMs}

Tick(d, max) ==
    /\ ticks < max
    /\ ticks' = ticks + 1
    /\ now' = now + d
    /\ UNCHANGED <<clients, inflight, response, log, expected, callVars, sideVars>>

----------------------------------------------------------------------------
(* The relay with one client that awaits each response before its next     *)
(* request                                                                 *)

\* Request headers: two registered users, no header, an unknown user.
KnownHeaders == {JStr("1"), JStr("2")}
BadHeaders == {JUndef, JStr("3")}
\* Request bodies of send: `to` as a decimal string or absent (the other
\* specifications send it as a number); `type` present or absent.
Recipients == {JUndef, JStr("2")}
Types == {JUndef, JStr("invite")}
Payloads ==
    { EmptyObj,
      "channel" :> JStr("call-123"),
      ("from" :> JNum(2)) @@ ("type" :> JStr("spoof")) }

Requests ==
    {Req(op, h, JUndef, JUndef, EmptyObj) : op \in {"register", "poll"}, h \in KnownHeaders}
    \cup {Req("poll", h, JUndef, JUndef, EmptyObj) : h \in BadHeaders}
    \cup {Req("send", h, to, ty, EmptyObj) : h \in KnownHeaders, to \in Recipients, ty \in Types}

Authorized == {req \in Requests : Authenticated(req)}

SeqUnauthorized == \E req \in Requests \ Authorized : Serve(req)
SeqRegister == \E req \in Authorized : req.op = "register" /\ Serve(req)
SeqSend == \E req \in Authorized : req.op = "send" /\ Len(log) < MaxSends /\ Serve(req)
SeqPoll == \E req \in Authorized : req.op = "poll" /\ Serve(req)
DoTick == \E d \in ClockSteps : Tick(d, MaxTicks)

Next ==
    \/ SeqUnauthorized
    \/ SeqRegister
    \/ SeqSend
    \/ SeqPoll
    \/ Sweep
    \/ DoTick

Spec == Init /\ [][Next]_vars

----------------------------------------------------------------------------
(* The relay with one client and request payloads of every shape           *)

PayloadRequests ==
    {Req("poll", h, JUndef, JUndef, EmptyObj) : h \in KnownHeaders}
    \cup {Req("send", h, JNum(to), JStr("invite"), p) :
            h \in KnownHeaders, to \in StoredUsers, p \in Payloads}

PayloadSend ==
    \E req \in PayloadRequests : req.op = "send" /\ Len(log) < MaxSends /\ Serve(req)
PayloadPoll == \E req \in PayloadRequests : req.op = "poll" /\ Serve(req)

PayloadNext ==
    \/ PayloadSend
    \/ PayloadPoll

SpecPayload == Init /\ [][PayloadNext]_vars

----------------------------------------------------------------------------
(* The relay under a burst: user 1 keeps sending to user 2, who polls now  *)
(* and then, long enough for the queue to reach its capacity               *)

BurstSend == Req("send", JStr("1"), JNum(2), JStr("invite"), EmptyObj)
BurstPoll == Req("poll", JStr("2"), JUndef, JUndef, EmptyObj)

BurstSendStep == Len(log) < MaxBurst /\ Serve(BurstSend)
BurstPollStep == Serve(BurstPoll)

BurstNext ==
    \/ BurstSendStep
    \/ BurstPollStep

SpecBurst == Init /\ [][BurstNext]_vars

----------------------------------------------------------------------------
(* The relay under concurrent requests: each request suspends in           *)
(* authenticate and its handler runs when the lookup has settled, in any   *)
(* order with the other requests, the sweep timer and the clock            *)

ConcRequests ==
    {Req(op, h, JUndef, JUndef, EmptyObj) : op \in {"register", "poll"}, h \in KnownHeaders}
    \cup {Req("send", JStr("1"), JNum(to), JStr("invite"), EmptyObj) : to \in StoredUsers}

ConcArrive ==
    \E req \in ConcRequests :
        /\ BagCardinality(inflight) < MaxInFlight
        /\ req.op = "send" => Len(log) + BagCardinality(inflight) < MaxSends
        /\ Arrive(req)

ConcResume == \E req \in DOMAIN inflight : Resume(req)

ConcTick == Tick(StaleMs + 1, MaxConcTicks)

ConcNext ==
    \/ ConcArrive
    \/ ConcResume
    \/ Sweep
    \/ ConcTick

SpecConc == Init /\ [][ConcNext]_vars

----------------------------------------------------------------------------
(* The call session: one user opening, using and leaving the call page,    *)
(* with the RTC collaborator answering in any order                        *)

\* The call specification sends typed messages, which come with a translation.
CallTranslated ==
    TranslatedOf({m \in Utterances : m.text # JStr("") /\ m.translatedText # JUndef})

CallNext ==
    \/ Mount
    \/ \E i \in DOMAIN pages : TokenArrives(i)
    \/ \E i \in DOMAIN pages : TokenFails(i)
    \/ \E i \in DOMAIN pages : ChannelJoined(i)
    \/ \E i \in DOMAIN pages : ChannelJoinFails(i)
    \/ \E i \in DOMAIN pages : TracksCreated(i)
    \/ \E i \in DOMAIN pages : TracksDenied(i)
    \/ \E i \in DOMAIN pages : Published(i)
    \/ \E i \in DOMAIN pages : PublishFails(i)
    \/ RemotePublishes
    \/ Subscribed
    \/ RemoteUnpublishes
    \/ RemoteLeaves
    \/ RtcException
    \/ \E i \in DOMAIN pages : UserEnds(i)
    \/ \E i \in DOMAIN pages : UserBack(i)
    \/ \E i \in DOMAIN pages : Unmount(i)
    \/ \E i \in DOMAIN pages : TimerTick(i)
    \/ StartCall
    \/ AcceptCall
    \/ SendMessage
    \/ CallTranslated
    \/ TranslationFails

SpecCall == Init /\ [][CallNext]_vars

----------------------------------------------------------------------------
(* The transcript: calls are started, accepted and ended and messages are  *)
(* sent from the call page while its join() stays suspended on the token   *)

TranscriptSend == SendMessageUpTo(MaxUtterances)

TranscriptNext ==
    \/ Mount
    \/ \E i \in DOMAIN pages : UserEnds(i)
    \/ \E i \in DOMAIN pages : Unmount(i)
    \/ StartCall
    \/ AcceptCall
    \/ RejectCall
    \/ TranscriptSend
    \/ Translated
    \/ TranslationFails

SpecTranscript == Init /\ [][TranscriptNext]_vars

----------------------------------------------------------------------------
(* Properties of the relay                                                 *)

Polled == response.op = "poll" /\ response.status = 200

\* The ids of a sequence of ids that were neither dropped on overflow nor
\* removed with their mailbox by the sweep.
Survivors(ids) == SelectSeq(ids, LAMBDA s : ~log[s].dropped /\ ~log[s].evicted)

\* The message object the relay built for log entry s.
Built(s) == BuildMessage(log[s].type, log[s].sender, log[s].payload)

\* C1 as stated: a poll returns exactly the messages accepted for the poller
\* since its previous poll, in acceptance order (and so nothing when none was
\* accepted).
C1_PollReturnsAllAccepted ==
    Polled => SeqIds(response.messages) = expected

\* C1 as amended: a poll returns, in acceptance order and unchanged, exactly
\* those of the messages accepted for the poller since its previous poll that
\* were neither dropped as the oldest entry on overflow nor removed with the
\* mailbox entry by a sweep; with none accepted it returns the empty list.
C1_PollReturnsSurvivors ==
    Polled =>
        /\ SeqIds(response.messages) = Survivors(expected)
        /\ \A i \in 1..Len(response.messages) :
              response.messages[i].msg = Built(response.messages[i].seq)

C1_Witness ==
    /\ Polled
    /\ Len(response.messages) >= 2
    /\ log[response.messages[1].seq].sender # log[response.messages[2].seq].sender

\* The last n elements of q
LastN(q, n) == IF Len(q) <= n THEN q ELSE SubSeq(q, Len(q) - n + 1, Len(q))

\* C2: every queue holds at most 100 messages, and it holds the most recent
\* 100 (or all, when fewer) of the messages accepted for its mailbox since the
\* last poll or eviction, in acceptance order: on overflow the oldest is the
\* one dropped.
C2_QueueKeepsNewest100 ==
    \A k \in DOMAIN clients :
        /\ Len(clients[k].messages) <= 100
        /\ SeqIds(clients[k].messages) =
              LastN(SelectSeq(OpenIds(k), LAMBDA s : ~log[s].evicted), 100)

C2_Witness ==
    \E k \in DOMAIN clients :
        /\ Len(clients[k].messages) = 100
        /\ \E s \in DOMAIN log : log[s].to = k /\ log[s].open /\ log[s].dropped
        /\ clients[k].messages[1].seq = 3

\* C3: a run of sweep removes exactly the entries polled more than 300 s ago
\* and leaves the others as they are; an entry that is created for a user
\* without one (never created, or removed) starts with the current time and an
\* empty queue, plus the sent message when a send created it.
C3_SweepRemovesExactlyStale ==
    [][ /\ Sweep =>
            /\ DOMAIN clients' = {k \in DOMAIN clients : now - clients[k].lastPoll <= 300000}
            /\ \A k \in DOMAIN clients' : clients'[k] = clients[k]
        /\ \A k \in DOMAIN clients' \ DOMAIN clients :
            /\ clients'[k].lastPoll = now
            /\ IF response'.op = "send"
               THEN SeqIds(clients'[k].messages) = <<Len(log')>>
               ELSE clients'[k].messages = <<>>
      ]_vars

C3_Witness ==
    /\ \E s \in DOMAIN log : log[s].evicted /\ log[s].to \in DOMAIN clients
    /\ \E k \in DOMAIN clients : now - clients[k].lastPoll = 300000

\* C4: no message is returned by more than one poll.
C4_ReturnedAtMostOnce ==
    \A s \in DOMAIN log : Len(log[s].polledBy) <= 1

C4_Witness ==
    /\ Polled
    /\ \E s \in DOMAIN log :
          /\ log[s].polledBy = <<response.user>>
          /\ s \notin IdSet(response.messages)

\* C5: a poll of an authenticated user is answered 200 and leaves the user's
\* entry with an empty queue and the current time, whether or not the entry
\* existed; without an entry the poll returns the empty list; no other entry
\* changes.
C5_PollAlwaysSucceeds ==
    [][ \A req \in Authorized :
            req.op = "poll" /\ Serve(req) =>
                LET u == ToNumber(req.hdr)
                IN  /\ response'.status = 200
                    /\ DOMAIN clients' = DOMAIN clients \cup {u}
                    /\ clients'[u] = [lastPoll |-> now, messages |-> <<>>]
                    /\ u \notin DOMAIN clients => response'.messages = <<>>
                    /\ \A k \in DOMAIN clients \ {u} : clients'[k] = clients[k]
      ]_vars

C5_Witness ==
    /\ Polled
    /\ response.messages = <<>>
    /\ \E s \in DOMAIN log : log[s].evicted /\ log[s].to = response.user
    /\ response.user \in DOMAIN clients
    /\ clients[response.user] = [lastPoll |-> now, messages |-> <<>>]

\* C6: a send without recipient or without type is answered 400 and changes
\* neither the mailbox map nor any queue or timestamp in it.
C6_InvalidSendChangesNothing ==
    [][ \A req \in Authorized :
            /\ req.op = "send"
            /\ req.to.kind = "undefined" \/ req.type.kind = "undefined"
            /\ Serve(req)
            => response'.status = 400 /\ clients' = clients /\ log' = log
      ]_vars

C6_Witness ==
    /\ response.op = "send"
    /\ response.status = 400
    /\ \E k \in DOMAIN clients : clients[k].messages # <<>>

\* C7: every polled message carries the type of its send request and the id
\* of the authenticated sender as `from`, whatever the payload.
C7_PolledTypeAndSender ==
    Polled =>
        \A i \in 1..Len(response.messages) :
            LET m == response.messages[i]
            IN  /\ m.msg["type"] = log[m.seq].type
                /\ m.msg["from"] = JNum(log[m.seq].sender)

\* C8: register creates the entry with an empty queue when it is absent;
\* otherwise it keeps the queue and sets the timestamp to the current time;
\* no other entry changes, and a second register at the same clock value
\* changes nothing.
C8_RegisterIdempotent ==
    [][ \A req \in Authorized :
            req.op = "register" /\ Serve(req) =>
                LET u == ToNumber(req.hdr)
                IN  /\ DOMAIN clients' = DOMAIN clients \cup {u}
                    /\ clients'[u].lastPoll = now
                    /\ clients'[u].messages =
                          IF u \in DOMAIN clients THEN clients[u].messages ELSE <<>>
                    /\ \A k \in DOMAIN clients \ {u} : clients'[k] = clients[k]
                    /\ RegisterClient(clients', u, now) = clients'
      ]_vars

C8_Witness ==
    /\ response.op = "register"
    /\ response.user \in DOMAIN clients
    /\ clients[response.user].messages # <<>>
    /\ clients[response.user].lastPoll = now
    /\ now > 0

\* The number of the four ends that hold of message s: returned by a poll of
\* its addressee, pending in its addressee's queue, dropped on overflow,
\* removed with its entry by the sweep.
Ends(s) ==
    LET to == log[s].to
        returned == log[s].polledBy = <<to>>
        pending == to \in DOMAIN clients /\ s \in IdSet(clients[to].messages)
    IN  Cardinality({e \in {"returned", "pending", "dropped", "evicted"} :
            \/ e = "returned" /\ returned
            \/ e = "pending" /\ pending
            \/ e = "dropped" /\ log[s].dropped
            \/ e = "evicted" /\ log[s].evicted})

\* C9: under every interleaving, each accepted message has exactly one of
\* the four ends; it is in no queue but its addressee's, at most once, and no
\* poll of another user returned it.
C9_ExactlyOneEnd ==
    \A s \in DOMAIN log :
        /\ Ends(s) = 1
        /\ Len(log[s].polledBy) <= 1
        /\ \A i \in 1..Len(log[s].polledBy) : log[s].polledBy[i] = log[s].to
        /\ \A k \in DOMAIN clients :
              Cardinality({i \in 1..Len(clients[k].messages) : clients[k].messages[i].seq = s})
                  <= (IF k = log[s].to THEN 1 ELSE 0)

C9_Witness ==
    /\ BagCardinality(inflight) = 2
    /\ \E s, t \in DOMAIN log :
          /\ log[s].evicted
          /\ log[t].polledBy = <<log[t].to>>

----------------------------------------------------------------------------
(* Properties of the call session                                          *)

\* The page instance on which handleEndCall runs in this step: by its
\* end-call control, or as the page of the handlers installed when the
\* remote user is reported to have left.
EndedBy(i) ==
    \/ UserEnds(i)
    \/ agora.handlers = i /\ (RemoteUnpublishes \/ RemoteLeaves)

\* The client is idle as far as page instance i is concerned.
IdleAfterEnd(i) ==
    /\ agora.sdk = "DISCONNECTED"
    /\ ~agora.published
    /\ agora.audio # "open"
    /\ agora.video # "open"
    /\ pages[i].interval # "active"
    /\ ctx.messages = <<>>
    /\ ~ctx.isCalling
    /\ ~ctx.isInCall
    /\ ctx.callPartner = "null"

\* C10: whenever handleEndCall runs on a page, while it is connecting, while
\* it is connected or once the remote user has left, it returns with the
\* client idle: the SDK client has left the channel and publishes nothing,
\* the tracks the wrapper holds are not open, the interval of that page is
\* not running, the transcript is empty and neither isCalling nor isInCall
\* is set.
C10_EndLeavesIdle == [][\A i \in DOMAIN pages : EndedBy(i) => IdleAfterEnd(i)']_vars

\* C10: the end-call control has just been used on a connected page whose
\* timer had ticked and whose transcript had entries.
C10_Witness ==
    /\ lastEnd = "connected"
    /\ location = "/"
    /\ ctx.messageIdCounter > 0
    /\ \E i \in DOMAIN pages :
            /\ pages[i].mounted
            /\ pages[i].isConnected
            /\ pages[i].callDuration > 0
            /\ pages[i].join = "done"
            /\ IdleAfterEnd(i)

\* The session of page instance i has ended and nothing has happened since:
\* the route has left the call page and the client is idle.
EndedAndIdle(i) ==
    /\ lastEnd # "none"
    /\ location = "/"
    /\ pages[i].mounted
    /\ IdleAfterEnd(i)

\* C11: handleEndCall run again on a page whose session has ended and is
\* idle changes nothing: the context (flags, partner, transcript, toasts
\* shown), the pages with their intervals, the RTC client and the route stay
\* as they are.
C11_SecondEndChangesNothing ==
    [][\A i \in DOMAIN pages :
          EndedAndIdle(i) /\ UserEnds(i) => UNCHANGED <<ctx, pages, agora, location>>]_vars

\* C11 without the toast: a second handleEndCall leaves the flags, the
\* partner, the transcript, the pages, the RTC client and the route as they
\* are (what is left of the statement once the "Call ended" toast is set aside).
SecondEndKeepsState ==
    [][\A i \in DOMAIN pages :
          EndedAndIdle(i) /\ UserEnds(i) =>
              /\ UNCHANGED <<pages, agora, location>>
              /\ ctx' = [ctx EXCEPT !.toasts = ctx'.toasts]]_vars

\* Page instance i is the call page on screen.
OnScreen(i) == pages[i].mounted /\ location = "/call"

\* C12: the page on screen shows the call as connected only while the RTC
\* client has reported the remote user's video (user-published, subscribed).
C12_ConnectedOnlyAfterRemote ==
    \A i \in DOMAIN pages : OnScreen(i) /\ pages[i].isConnected => agora.remote = "video"

\* C13: the duration interval of the page on screen runs only while the
\* remote user's video has been reported; before that the duration is 0 and
\* nothing ticks.
C13_TimerOnlyAfterRemote ==
    \A i \in DOMAIN pages :
        OnScreen(i) /\ agora.remote # "video" =>
            pages[i].interval # "active" /\ pages[i].callDuration = 0

\* C14: a page that has been unmounted has no duration interval running,
\* whatever its pending join() did after the exit.
C14_NoTickAfterExit ==
    \A i \in DOMAIN pages : ~pages[i].mounted => pages[i].interval # "active"

\* A call session is calling or connected.
InSession == ctx.isCalling \/ ctx.isInCall

\* C15: startCall invoked while a session is calling or connected ends that
\* session first: the new session starts with an empty transcript and with
\* the in-call flag reset.
C15_StartCallEndsSession ==
    [][StartCall /\ InSession => ctx'.messages = <<>> /\ ~ctx'.isInCall]_vars

\* C16: addMessage invoked when no session is calling or connected and no
\* call page is on screen, as when a translation started during a call
\* arrives after its end, leaves the transcript unchanged.
C16_AppendOnlyInSession ==
    [][CallTranslated /\ ~InSession /\ (\A i \in DOMAIN pages : ~OnScreen(i))
          => ctx'.messages = ctx.messages]_vars

\* s is a prefix of t.
IsPrefix(s, t) == Len(s) <= Len(t) /\ SubSeq(t, 1, Len(s)) = s

\* C17: within one call the transcript is append-only. A step that is not
\* endCall keeps the transcript as a prefix of the new one, and addMessage
\* with a sender and a non-empty text appends exactly one entry, which
\* carries that sender, text and translation; with no sender or an empty
\* text it leaves the transcript as it is.
C17_TranscriptAppendOnly ==
    [][/\ ctx' # endCall(ctx) => IsPrefix(ctx.messages, ctx'.messages)
       /\ \A message \in Utterances :
             Translated /\ ctx' = addMessage(ctx, message) =>
                 IF Falsy(message.sender) \/ Falsy(message.text)
                 THEN ctx'.messages = ctx.messages
                 ELSE /\ Len(ctx'.messages) = Len(ctx.messages) + 1
                      /\ SubSeq(ctx'.messages, 1, Len(ctx.messages)) = ctx.messages
                      /\ LET new == ctx'.messages[Len(ctx'.messages)]
                         IN  /\ new.sender = message.sender
                             /\ new.text = message.text
                             /\ new.translatedText = message.translatedText
                             /\ \A k \in 1..Len(ctx.messages) : ctx.messages[k].id # new.id]_vars

\* C17: the transcript holds two entries in the order they were added, the
\* second one with a translation.
C17_Witness ==
    /\ Len(ctx.messages) = 2
    /\ ctx.messages[1].id < ctx.messages[2].id
    /\ ctx.messages[2].translatedText = JStr("hello")

\* C18: when the token request or the acquisition of camera and microphone
\* fails for the page on screen, the attempt ends: the channel is left, no
\* interval of the page runs, the context is no longer calling and the
\* failure is shown (a toast).
C18_FailedStartEnds ==
    [][\A i \in DOMAIN pages :
          OnScreen(i) /\ (TokenFails(i) \/ TracksDenied(i)) =>
              /\ agora'.sdk = "DISCONNECTED"
              /\ pages'[i].interval # "active"
              /\ ~ctx'.isCalling
              /\ ctx'.toasts # ctx.toasts]_vars

\* C19: user-unpublished (video) or user-left reported by the SDK client in
\* the channel ends the session of the page whose handlers are installed:
\* the channel is left, the interval of that page is stopped, the page is
\* no longer connected and the context is reset (no partner, empty
\* transcript, not calling, not in call).
C19_RemoteLeftEnds ==
    [][RemoteUnpublishes \/ RemoteLeaves =>
          /\ IdleAfterEnd(agora.handlers)'
          /\ ~pages'[agora.handlers].isConnected
          /\ location' = "/"]_vars

\* C19: the remote user has left a call whose page was connected, with its
\* timer started and a message in its transcript.
C19_Witness ==
    /\ lastEnd = "remoteLeft"
    /\ ctx.messageIdCounter > 0
    /\ \E i \in DOMAIN pages :
            /\ pages[i].mounted
            /\ pages[i].join = "done"
            /\ pages[i].interval = "cleared"
            /\ ~pages[i].isConnected
            /\ IdleAfterEnd(i)

\* C20: after the SDK client has raised an exception in the channel the
\* session does not go on: the channel has been left.
C20_FatalErrorEnds == agora.exception => agora.sdk = "DISCONNECTED"

----------------------------------------------------------------------------
(* Transcription polling                                                   *)

PollNext ==
    \/ PollStarts
    \/ \E i \in DOMAIN polls : \E answer \in Answers : AnswerArrives(i, answer)
    \/ \E i \in DOMAIN polls : PollTimerFires(i)

SpecPoll == Init /\ [][PollNext]_vars

Settled(p) == p.stage \in {"resolved", "rejected", "timedout"}

\* C21: every poll terminates and settles as told: it resolves on the first
\* completed answer, rejects at once on an error answer or a failed
\* request, rejects with the timeout after 30 answers that all said still
\* processing, never makes a 31st attempt, and while it has not settled a
\* request or a timeout of it is pending (a settled poll has no timeout).
C21_PollSettles ==
    \A i \in DOMAIN polls :
        LET p == polls[i]
        IN  /\ p.attempts <= maxAttempts
            /\ p.last = "completed" => p.stage = "resolved"
            /\ p.last \in {"error", "failed"} => p.stage = "rejected"
            /\ p.last \in {"queued", "processing"} /\ p.attempts = maxAttempts
                   => p.stage = "timedout"
            /\ Settled(p) => ~p.timer
            /\ ~Settled(p) => p.stage = "fetching" \/ p.timer

----------------------------------------------------------------------------
(* The microphone and camera controls                                      *)

ToggleNext ==
    \/ Mount
    \/ \E i \in DOMAIN pages : TokenArrives(i)
    \/ \E i \in DOMAIN pages : ChannelJoined(i)
    \/ \E i \in DOMAIN pages : TracksCreated(i)
    \/ \E i \in DOMAIN pages : Published(i)
    \/ \E i \in DOMAIN pages : UserEnds(i)
    \/ \E i \in DOMAIN pages : Unmount(i)
    \/ \E i \in DOMAIN pages : TimerTick(i)
    \/ StartCall
    \/ AcceptCall
    \/ SendMessage
    \/ CallTranslated
    \/ \E i \in DOMAIN pages : HandleToggleAudio(i)
    \/ \E i \in DOMAIN pages : HandleToggleVideo(i)

SpecToggle == Init /\ [][ToggleNext]_vars

\* The intervals and durations of all page instances.
Timers == [i \in DOMAIN pages |-> <<pages[i].interval, pages[i].callDuration>>]

----------------------------------------------------------------------------
(* Aborted joins, late events, teardown steps                              *)

\* Every page instance has been unmounted (after an end or a route change)
\* and no join() is suspended any more.
AllSettledAfterExit ==
    /\ pages # <<>>
    /\ \A i \in DOMAIN pages : ~pages[i].mounted /\ pages[i].join \in {"done", "failed"}

\* Nothing of the RTC session is held: no open track, referenced or not,
\* and the SDK client neither joined or joining nor publishing.
Released ==
    /\ agora.audio # "open"
    /\ agora.video # "open"
    /\ agora.orphans = 0
    /\ agora.sdk = "DISCONNECTED"
    /\ ~agora.published

\* C23: once every page has been left and every join() has settled, also
\* one that was suspended when its page was ended or unmounted, no local
\* track is open and the client is not in the channel and not publishing.
C23_AbortedJoinReleases == AllSettledAfterExit => Released

\* The session has ended: a page was opened and no page is rendered.
AfterExit == pages # <<>> /\ \A i \in DOMAIN pages : ~pages[i].mounted

\* C24: after the end of the session no callback of the RTC client sets a
\* page connected or starts an interval, and the remote-left callback does
\* not run the teardown again (no second endCall with its toast, no route
\* change).
C24_LateEventsIgnored ==
    [][AfterExit =>
          /\ \A i \in DOMAIN pages :
                /\ pages'[i].isConnected => pages[i].isConnected
                /\ pages'[i].interval = "active" => pages[i].interval = "active"
          /\ RemoteLeaves \/ RemoteUnpublishes => ctx' = ctx /\ location' = location]_vars

TeardownNext ==
    \/ Mount
    \/ \E i \in DOMAIN pages : TokenArrives(i)
    \/ \E i \in DOMAIN pages : ChannelJoined(i)
    \/ \E i \in DOMAIN pages : TracksCreated(i)
    \/ \E i \in DOMAIN pages : Published(i)
    \/ \E i \in DOMAIN pages : TimerTick(i)
    \/ \E i \in DOMAIN pages : Unmount(i)
    \/ StartCall
    \/ AcceptCall
    \/ \E i \in DOMAIN pages : \E fault \in Faults : \E stopped \in BOOLEAN :
          HandleEndCallFailing(i, fault, stopped)

SpecTeardown == Init /\ [][TeardownNext]_vars

\* C25: whichever step of the teardown fails, the other steps are done: the
\* interval of the page is cancelled, each track whose close() did not fail
\* is closed, and the channel is left unless leaving itself failed.
C25_TeardownStepsIndependent ==
    [][\A i \in DOMAIN pages : \A fault \in Faults : \A stopped \in BOOLEAN :
          HandleEndCallFailing(i, fault, stopped) =>
              /\ pages'[i].interval # "active"
              /\ fault # "audioClose" => agora'.audio # "open"
              /\ fault # "videoClose" => agora'.video # "open"
              /\ fault # "clientLeave" => agora'.sdk = "DISCONNECTED" /\ ~agora'.published]_vars

----------------------------------------------------------------------------
(* What send leaves alone                                                  *)

\* C26: an accepted send adds the message to the addressee's queue and
\* changes nothing else of the map: it creates no entry but the addressee's,
\* leaves every other entry as it is (the sender's too, unless the sender is
\* the addressee) and leaves the lastPoll of an addressee entry that exists
\* as it is.
C26_SendFrame ==
    [][Len(log') > Len(log) =>
          LET key == log'[Len(log')].to
              sender == log'[Len(log')].sender
          IN  /\ DOMAIN clients' = DOMAIN clients \cup {key}
              /\ \A k \in DOMAIN clients \ {key} : clients'[k] = clients[k]
              /\ sender # key => (sender \in DOMAIN clients' <=> sender \in DOMAIN clients)
              /\ key \in DOMAIN clients =>
                    clients'[key].lastPoll = clients[key].lastPoll]_vars

\* The request served last is an accepted send; its message has since been
\* removed by the sweep with the addressee's entry, less than 300 s after the
\* sender's own last register or poll and so less than 300 s after the send;
\* the sender's entry is still there.
C26_Witness ==
    /\ response.op = "send"
    /\ response.status = 200
    /\ log # <<>>
    /\ LET m == log[Len(log)]
       IN  /\ m.evicted
           /\ m.sender = response.user
           /\ m.sender # m.to
           /\ m.sender \in DOMAIN clients
           /\ now - clients[m.sender].lastPoll < StaleMs

----------------------------------------------------------------------------
(* The flags of the call context                                           *)

\* C27: the calling flag and the in-call flag are never both set, and a
\* partner is recorded whenever one of them is set.
C27_FlagsConsistent ==
    /\ ~(ctx.isCalling /\ ctx.isInCall)
    /\ ctx.isCalling \/ ctx.isInCall => ctx.callPartner # "null"

----------------------------------------------------------------------------
(* What ends a call                                                        *)

\* C28: a remote user who stops publishing video and stays in the channel
\* does not end the local call: the route, the call context, the channel
\* membership, the local tracks and the intervals stay as they are.
C28_UnpublishKeepsCall ==
    [][RemoteUnpublishes =>
          /\ location' = location
          /\ ctx' = ctx
          /\ agora'.sdk = agora.sdk
          /\ agora'.published = agora.published
          /\ agora'.audio = agora.audio /\ agora'.video = agora.video
          /\ Timers' = Timers]_vars

----------------------------------------------------------------------------
(* Speech recording                                                        *)

RecordNext ==
    \/ StartRecording
    \/ StopRecording
    \/ \E id \in DOMAIN recorder.recorders : \E size \in {0, 1} : RecorderStops(id, size)

SpecRecord == Init /\ [][RecordNext]_vars

\* C29: from the return of startRecording to the next stopRecording the
\* service is recording, and a stopRecording called while the recorder
\* started last is recording does not return null.
C29_RecordingUntilStop ==
    /\ RecorderActive(recorder) => recorder.isRecording
    /\ recorder.held => recorder.result # "null"

----------------------------------------------------------------------------
(* Concurrent registrations                                                *)

SignupNext ==
    \/ \E body \in SignupBodies : SignupArrives(body)
    \/ \E r \in DOMAIN signups : UsernameTaken(r)
    \/ \E r \in DOMAIN signups : UsernameFree(r)
    \/ \E r \in DOMAIN signups : EmailInUse(r)
    \/ \E r \in DOMAIN signups : EmailFree(r)
    \/ \E r \in DOMAIN signups : SignupCreated(r)

SpecSignup == Init /\ [][SignupNext]_vars

\* The requests that have stored a user.
Stored == {r \in DOMAIN signups : signups[r].stage = "create" \/ signups[r].status = 201}

\* C30: under every interleaving of registrations no two stored users have
\* the same username or the same email, and the stored users are the sample
\* user and one user per request that was not rejected.
C30_UniqueUsers ==
    /\ \A i, j \in DOMAIN users.rows :
          i # j => /\ users.rows[i].username # users.rows[j].username
                   /\ users.rows[i].email # users.rows[j].email
    /\ Len(users.rows) = 1 + Cardinality(Stored)

====
